---- MODULE Spec2Model ----
(***************************************************************************)
(* Model of macrocam's USDA lookup engine (src/macrocam/nutrition.py).     *)
(*                                                                         *)
(* Text is a sequence of one-character strings over the alphabet Chars.    *)
(* Scores are Python floats in the source; here a score s is the integer   *)
(* s * ScoreUnit, which is exact for every value the scorer can produce    *)
(* while a query has at most 5 tokens (2.0, 1.2, k * 0.02 and overlap / n).*)
(***************************************************************************)
EXTENDS Integers, Sequences, FiniteSets, TLC

VARIABLES
    pc,               \* position of the call in progress
    files,            \* names of the tables present in the reference directory
    food,             \* rows of food.csv
    nutrient,         \* rows of nutrient.csv
    food_nutrient,    \* rows of food_nutrient.csv
    query,            \* argument query
    prefer_types,     \* argument prefer_types: [given, types]
    limit,            \* argument limit of search_usda_foods
    fallback_queries, \* argument / local fallback_queries: [given, list]
    use_llm_fallback, \* argument use_llm_fallback
    matches,          \* local matches of lookup_usda_food, result of search_usda_foods
    alt_pos,          \* number of fallback queries already scanned
    unique_matches,   \* local unique_matches
    nutrient_ids,     \* local nutrient_ids
    required_ids,     \* local required_ids
    cand_pos,         \* number of candidates already tried
    last_error,       \* local last_error
    outcome,          \* what the call returned or raised
    log,              \* the external effects of the call so far, in order
    description,      \* argument description of _score_description
    data_type,        \* argument data_type of _score_description
    score,            \* value returned by _score_description
    nutrient_index,   \* value returned by _load_nutrient_index
    loaded_amounts,   \* value returned by _load_nutrient_amounts
    fdc_id,           \* argument fdc_id of _load_nutrient_amounts
    cache_files,      \* content of every file of the cache directory
    raw,              \* argument raw of normalize_candidates
    writers           \* the calls of set_vision_cache in progress, each with its position

vars == <<pc, files, food, nutrient, food_nutrient, query, prefer_types, limit,
          fallback_queries, use_llm_fallback, matches, alt_pos, unique_matches,
          nutrient_ids, required_ids, cand_pos, last_error, outcome, log,
          description, data_type, score, nutrient_index, loaded_amounts,
          fdc_id, cache_files, raw, writers>>

\* the state of the functions that the lookup does not call through its stages
standalone == <<nutrient_index, loaded_amounts, fdc_id, cache_files, raw, writers>>

(***************************************************************************)
(* Bounds of the model.                                                    *)
(***************************************************************************)
MaxQueryLen == 3
MaxDescLen == 2
MaxRows == 3
MaxLimit == 2
MaxFallbacks == 2
MaxFoods == 2
MaxVocabRows == 3
MaxAmountRows == 3
MaxCalls == 3
MaxItems == 6

(***************************************************************************)
(* Text: the alphabet, and the string operations the source uses.          *)
(***************************************************************************)
Chars == {"a", "b", "A", " ", "-"}

Whitespace == {" "}

RECURSIVE TextsUpTo(_)
TextsUpTo(n) ==
    IF n = 0 THEN {<<>>}
    ELSE LET shorter == TextsUpTo(n - 1)
         IN  shorter \cup {Append(t, c) : t \in {u \in shorter : Len(u) = n - 1}, c \in Chars}

Max(a, b) == IF a >= b THEN a ELSE b

\* str.lower() on one character
LowerChar(c) == IF c = "A" THEN "a" ELSE c

\* str.lower()
Lower(text) == [i \in 1..Len(text) |-> LowerChar(text[i])]

\* the character class [a-z0-9]
IsAlnum(c) == c \in {"a", "b"}

\* re.sub(<class>+, " ", text): every maximal run of characters of the class
\* becomes one space
ReSubRuns(text, class) ==
    LET starts == SelectSeq([i \in 1..Len(text) |-> i],
                            LAMBDA i : \/ text[i] \notin class
                                       \/ i = 1
                                       \/ text[i - 1] \notin class)
    IN  [k \in 1..Len(starts) |->
            IF text[starts[k]] \in class THEN " " ELSE text[starts[k]]]

\* str.strip()
Strip(text) ==
    LET keep == {i \in 1..Len(text) : text[i] \notin Whitespace}
    IN  IF keep = {} THEN <<>>
        ELSE LET first == CHOOSE i \in keep : \A j \in keep : i <= j
                 last == CHOOSE i \in keep : \A j \in keep : i >= j
             IN  SubSeq(text, first, last)

\* set(str.split()): the maximal runs of non-whitespace characters
SplitSet(text) ==
    {SubSeq(text, p[1], p[2]) :
        p \in {r \in (1..Len(text)) \X (1..Len(text)) :
                  /\ r[1] <= r[2]
                  /\ \A m \in r[1]..r[2] : text[m] \notin Whitespace
                  /\ (r[1] = 1 \/ text[r[1] - 1] \in Whitespace)
                  /\ (r[2] = Len(text) \/ text[r[2] + 1] \in Whitespace)}}

\* a in b, for strings
IsSubstring(a, b) ==
    \E i \in 0..(Len(b) - Len(a)) : SubSeq(b, i + 1, i + Len(a)) = a

_normalize_text(text) ==
    LET cleaned == Strip(ReSubRuns(Lower(text), {c \in Chars : ~IsAlnum(c)}))
    IN  ReSubRuns(cleaned, Whitespace)

(***************************************************************************)
(* The scorer.                                                             *)
(***************************************************************************)
ScoreUnit == 6000

PREFERRED_DATA_TYPES ==
    << "foundation_food", "survey_fndds_food", "sr_legacy_food", "sub_sample_food",
       "sample_food", "experimental_food", "market_acquistion", "market_acquisition",
       "agricultural_acquisition", "branded_food" >>

PreferredTypeSet == {PREFERRED_DATA_TYPES[i] : i \in 1..Len(PREFERRED_DATA_TYPES)}

DATA_TYPE_BONUS_DoubleStep(tag) ==
    IF tag \in PreferredTypeSet
    THEN LET idx == CHOOSE i \in 1..Len(PREFERRED_DATA_TYPES) : PREFERRED_DATA_TYPES[i] = tag
         IN  (Len(PREFERRED_DATA_TYPES) - (idx - 1)) * ((4 * ScoreUnit) \div 100)
    ELSE 0

\* DATA_TYPE_BONUS.get(data_type, 0.0); 0.02 is 2 * ScoreUnit / 100
DATA_TYPE_BONUS(tag) ==
    IF tag \in PreferredTypeSet
    THEN LET idx == CHOOSE i \in 1..Len(PREFERRED_DATA_TYPES) : PREFERRED_DATA_TYPES[i] = tag
         IN  (Len(PREFERRED_DATA_TYPES) - (idx - 1)) * ((2 * ScoreUnit) \div 100)
    ELSE 0

_score_description_SubstringAsExact(query_norm, query_tokens, desc, tag) ==
    IF desc = <<>> THEN 0
    ELSE LET desc_norm == _normalize_text(desc)
             bonus == DATA_TYPE_BONUS(tag)
             desc_tokens == SplitSet(desc_norm)
             overlap == Cardinality(query_tokens \cap desc_tokens)
         IN  IF query_norm = <<>> \/ desc_norm = <<>> THEN 0
             ELSE IF IsSubstring(query_norm, desc_norm) THEN 2 * ScoreUnit + bonus
             ELSE IF desc_tokens = {} THEN 0
             ELSE IF overlap = 0 THEN 0
             ELSE (overlap * ScoreUnit) \div Max(Cardinality(query_tokens), 1) + bonus

_score_description(query_norm, query_tokens, desc, tag) ==
    IF desc = <<>> THEN 0
    ELSE LET desc_norm == _normalize_text(desc)
             bonus == DATA_TYPE_BONUS(tag)
             desc_tokens == SplitSet(desc_norm)
             overlap == Cardinality(query_tokens \cap desc_tokens)
         IN  IF query_norm = <<>> \/ desc_norm = <<>> THEN 0
             ELSE IF query_norm = desc_norm THEN 2 * ScoreUnit + bonus
             ELSE IF IsSubstring(query_norm, desc_norm) THEN (12 * ScoreUnit) \div 10 + bonus
             ELSE IF desc_tokens = {} THEN 0
             ELSE IF overlap = 0 THEN 0
             ELSE (overlap * ScoreUnit) \div Max(Cardinality(query_tokens), 1) + bonus

(***************************************************************************)
(* Results of calls: a call returns (kind "return") or raises (kind is the *)
(* exception class).  text is the query a message quotes, file the path it *)
(* names, by the position in unique_matches of the candidate whose         *)
(* assembly raised it (0 if none), value the returned object if any.       *)
(***************************************************************************)
Pending == [kind |-> "pending", msg |-> "", text |-> <<>>, file |-> "", by |-> 0, value |-> <<>>]

Returned(v) == [kind |-> "return", msg |-> "", text |-> <<>>, file |-> "", by |-> 0, value |-> v]

Raised(k, m, t, f, b) == [kind |-> k, msg |-> m, text |-> t, file |-> f, by |-> b, value |-> <<>>]

NoArg == [given |-> FALSE, types |-> {}]

(***************************************************************************)
(* The reference directory.                                                *)
(***************************************************************************)
REQUIRED_FILES == << "food.csv", "food_nutrient.csv", "nutrient.csv" >>

RequiredFileSet == {REQUIRED_FILES[i] : i \in 1..Len(REQUIRED_FILES)}

_resolve_data_dir_FoodOnly(dir) ==
    IF "food.csv" \in dir THEN Returned(<<>>)
    ELSE Raised("FileNotFoundError", "Missing USDA file", <<>>, "food.csv", 0)

\* the directory is the set of file names present in it
_resolve_data_dir(dir) ==
    LET missing == {i \in 1..Len(REQUIRED_FILES) : REQUIRED_FILES[i] \notin dir}
    IN  IF missing = {} THEN Returned(<<>>)
        ELSE LET first == CHOOSE i \in missing : \A j \in missing : i <= j
             IN  Raised("FileNotFoundError", "Missing USDA file", <<>>, REQUIRED_FILES[first], 0)

(***************************************************************************)
(* The scanner.  Food ids and source-type tags are opaque strings without  *)
(* surrounding whitespace; descriptions are text.                          *)
(***************************************************************************)
FoodCandidate(id, desc, tag, s) ==
    [fdc_id |-> id, description |-> desc, data_type |-> tag, score |-> s]

LowestIndex_First(candidates) == 1

\* min(range(len(candidates)), key=score): the first index of the lowest score
LowestIndex(candidates) ==
    CHOOSE i \in 1..Len(candidates) :
        /\ \A j \in 1..Len(candidates) : candidates[i].score <= candidates[j].score
        /\ \A j \in 1..(i - 1) : candidates[j].score > candidates[i].score

KeepCandidate_NeverEvicts(candidates, candidate, K) ==
    IF Len(candidates) < K THEN Append(candidates, candidate) ELSE candidates

\* the bounded top-K maintenance
KeepCandidate(candidates, candidate, K) ==
    IF Len(candidates) < K THEN Append(candidates, candidate)
    ELSE LET lowest_index == LowestIndex(candidates)
         IN  IF candidate.score > candidates[lowest_index].score
             THEN [candidates EXCEPT ![lowest_index] = candidate]
             ELSE candidates

PassesTypeFilter_DropsUntagged(prefer, tag) == ~(prefer # {} /\ tag \notin prefer)

\* the filter on the source-type: prefer is the set built from prefer_types
PassesTypeFilter(prefer, tag) == ~(prefer # {} /\ tag # "" /\ tag \notin prefer)

ScanRow_KeepsEmptyId(candidates, row, query_norm, query_tokens, prefer, K) ==
    LET desc == Strip(row.description)
        tag == row.data_type
        s == _score_description(query_norm, query_tokens, desc, tag)
    IN  IF desc = <<>> THEN candidates
        ELSE IF ~PassesTypeFilter(prefer, tag) THEN candidates
        ELSE IF s <= 0 THEN candidates
        ELSE KeepCandidate(candidates, FoodCandidate(row.fdc_id, desc, tag, s), K)

\* one iteration of the loop over the rows
ScanRow(candidates, row, query_norm, query_tokens, prefer, K) ==
    LET desc == Strip(row.description)
        tag == row.data_type
        s == _score_description(query_norm, query_tokens, desc, tag)
    IN  IF desc = <<>> THEN candidates
        ELSE IF ~PassesTypeFilter(prefer, tag) THEN candidates
        ELSE IF s <= 0 THEN candidates
        ELSE IF row.fdc_id = "" THEN candidates
        ELSE KeepCandidate(candidates, FoodCandidate(row.fdc_id, desc, tag, s), K)

\* the loop over the rows, from row idx on; max_rows is [given, n]
RECURSIVE ScanRows(_, _, _, _, _, _, _, _)
ScanRows(rows, idx, candidates, query_norm, query_tokens, prefer, K, max_rows) ==
    IF idx > Len(rows) THEN candidates
    ELSE IF max_rows.given /\ idx - 1 >= max_rows.n THEN candidates
    ELSE ScanRows(rows, idx + 1,
                  ScanRow(candidates, rows[idx], query_norm, query_tokens, prefer, K),
                  query_norm, query_tokens, prefer, K, max_rows)

\* list.sort(key=score, reverse=True): stable, equal scores keep their order
RECURSIVE SortByScoreDesc(_)
SortByScoreDesc(candidates) ==
    IF candidates = <<>> THEN <<>>
    ELSE LET sorted == SortByScoreDesc(SubSeq(candidates, 1, Len(candidates) - 1))
             c == candidates[Len(candidates)]
             before == Cardinality({i \in 1..Len(sorted) : sorted[i].score >= c.score})
         IN  SubSeq(sorted, 1, before) \o <<c>> \o SubSeq(sorted, before + 1, Len(sorted))

NoMaxRows == [given |-> FALSE, n |-> 0]

search_usda_foods(q, dir, rows, K, prefer_arg, max_rows) ==
    IF q = <<>> \/ Strip(q) = <<>>
    THEN Raised("ValueError", "query must be non-empty", <<>>, "", 0)
    ELSE LET base_dir == _resolve_data_dir(dir)
             prefer == IF prefer_arg.given THEN prefer_arg.types ELSE PreferredTypeSet
             query_norm == _normalize_text(q)
             query_tokens == SplitSet(query_norm)
             candidates == ScanRows(rows, 1, <<>>, query_norm, query_tokens, prefer, K, max_rows)
             sorted == SortByScoreDesc(candidates)
         IN  IF base_dir.kind # "return" THEN base_dir
             ELSE IF query_norm = <<>>
             THEN Raised("ValueError", "query must be non-empty", <<>>, "", 0)
             ELSE Returned(SubSeq(sorted, 1, IF K < Len(sorted) THEN K ELSE Len(sorted)))

(***************************************************************************)
(* The nutrient vocabulary.  Nutrient names and units are opaque strings;  *)
(* LowerStr and UpperStr give str.lower() and str.upper() on the ones used.*)
(***************************************************************************)
NUTRIENT_FIELDS ==
    << "calories_kcal", "protein_g", "carbs_g", "fat_g",
       "sugars_g", "fiber_g", "sodium_mg", "cholesterol_mg" >>

NUTRIENT_NAME_PREFERENCES ==
    [ calories_kcal |-> << "Energy", "Energy (Atwater General Factors)",
                           "Energy (Atwater Specific Factors)" >>,
      protein_g |-> << "Protein", "Adjusted Protein" >>,
      carbs_g |-> << "Carbohydrate, by difference", "Carbohydrate, by summation",
                     "Carbohydrates" >>,
      fat_g |-> << "Total lipid (fat)" >>,
      sugars_g |-> << "Total Sugars", "Sugars, Total" >>,
      fiber_g |-> << "Fiber, total dietary" >>,
      sodium_mg |-> << "Sodium, Na" >>,
      cholesterol_mg |-> << "Cholesterol" >> ]

LowerStr(name) ==
    CASE name \in {"Energy", "ENERGY"} -> "energy"
      [] name = "Energy (Atwater General Factors)" -> "energy (atwater general factors)"
      [] name = "Energy (Atwater Specific Factors)" -> "energy (atwater specific factors)"
      [] name \in {"Protein", "PROTEIN"} -> "protein"
      [] name = "Adjusted Protein" -> "adjusted protein"
      [] name = "Carbohydrate, by difference" -> "carbohydrate, by difference"
      [] name = "Carbohydrate, by summation" -> "carbohydrate, by summation"
      [] name = "Carbohydrates" -> "carbohydrates"
      [] name = "Total lipid (fat)" -> "total lipid (fat)"
      [] name = "Total Sugars" -> "total sugars"
      [] name = "Sugars, Total" -> "sugars, total"
      [] name = "Fiber, total dietary" -> "fiber, total dietary"
      [] name = "Sodium, Na" -> "sodium, na"
      [] name = "Cholesterol" -> "cholesterol"
      [] OTHER -> name

UpperStr(unit) ==
    CASE unit \in {"kcal", "Kcal"} -> "KCAL"
      [] unit = "kJ" -> "KJ"
      [] unit = "g" -> "G"
      [] unit = "mg" -> "MG"
      [] OTHER -> unit

KeepExisting_Always(lookup, key, entry) == key \in DOMAIN lookup

\* lines 255-260: the name is already in the map and its entry is not replaced
KeepExisting(lookup, key, entry) ==
    /\ key \in DOMAIN lookup
    /\ \/ lookup[key].unit = "KCAL"
       \/ entry.unit # "KCAL"

\* the loop of _load_nutrient_index from row idx on; lookup maps a lowercased
\* name to [id, unit]
RECURSIVE IndexRows(_, _, _)
IndexRows(rows, idx, lookup) ==
    IF idx > Len(rows) THEN lookup
    ELSE LET row == rows[idx]
             name == row.name
             entry == [id |-> row.id, unit |-> UpperStr(row.unit_name)]
             key == LowerStr(name)
         IN  IF name = "" THEN IndexRows(rows, idx + 1, lookup)
             ELSE IF KeepExisting(lookup, key, entry)
             THEN IndexRows(rows, idx + 1, lookup)
             ELSE IndexRows(rows, idx + 1,
                            [k \in DOMAIN lookup \cup {key} |->
                                IF k = key THEN entry ELSE lookup[k]])

EmptyMap == [k \in {} |-> 0]

_load_nutrient_index(rows) == IndexRows(rows, 1, EmptyMap)

\* the ids collected for one field: the resolved names, in preference order
ResolvedIds(nutrient_lookup, names) ==
    LET hits == SelectSeq(names, LAMBDA name :
                    /\ LowerStr(name) \in DOMAIN nutrient_lookup
                    /\ nutrient_lookup[LowerStr(name)].id # "")
    IN  [k \in 1..Len(hits) |-> nutrient_lookup[LowerStr(hits[k])].id]

_resolve_nutrient_ids(rows) ==
    LET nutrient_lookup == _load_nutrient_index(rows)
        fields == {f \in DOMAIN NUTRIENT_NAME_PREFERENCES :
                      ResolvedIds(nutrient_lookup, NUTRIENT_NAME_PREFERENCES[f]) # <<>>}
    IN  [f \in fields |-> ResolvedIds(nutrient_lookup, NUTRIENT_NAME_PREFERENCES[f])]

\* the union of the id lists of all fields
RequiredIds(ids_by_field) ==
    UNION {{ids_by_field[f][i] : i \in 1..Len(ids_by_field[f])} : f \in DOMAIN ids_by_field}

(***************************************************************************)
(* The per-food loader.  An amount cell is empty, a number, or other text. *)
(***************************************************************************)
Num(v) == [cell |-> "number", val |-> v]

EmptyCell == [cell |-> "empty", val |-> 0]

TextCell == [cell |-> "text", val |-> 0]

AlreadyLoaded_Never(amounts, nutrient_id) == FALSE

\* lines 293-294: an amount was already kept for this nutrient id
AlreadyLoaded(amounts, nutrient_id) == nutrient_id \in DOMAIN amounts

RECURSIVE AmountRows(_, _, _, _, _)
AmountRows(rows, idx, amounts, id, required) ==
    IF idx > Len(rows) THEN amounts
    ELSE LET row == rows[idx]
             nutrient_id == row.nutrient_id
         IN  IF row.fdc_id # id THEN AmountRows(rows, idx + 1, amounts, id, required)
             ELSE IF nutrient_id \notin required
             THEN AmountRows(rows, idx + 1, amounts, id, required)
             ELSE IF AlreadyLoaded(amounts, nutrient_id)
             THEN AmountRows(rows, idx + 1, amounts, id, required)
             ELSE IF row.amount.cell = "empty"
             THEN AmountRows(rows, idx + 1, amounts, id, required)
             ELSE IF row.amount.cell # "number"
             THEN AmountRows(rows, idx + 1, amounts, id, required)
             ELSE AmountRows(rows, idx + 1,
                             [k \in DOMAIN amounts \cup {nutrient_id} |->
                                 IF k = nutrient_id THEN row.amount.val ELSE amounts[k]],
                             id, required)

_load_nutrient_amounts(id, rows, required) == AmountRows(rows, 1, EmptyMap, id, required)

(***************************************************************************)
(* The assembler.                                                          *)
(***************************************************************************)
pick_LastKnown(ids_by_field, amounts, field) ==
    LET ids == IF field \in DOMAIN ids_by_field THEN ids_by_field[field] ELSE <<>>
        known == {i \in 1..Len(ids) : ids[i] \in DOMAIN amounts}
    IN  IF known = {} THEN <<>>
        ELSE <<amounts[ids[CHOOSE i \in known : \A j \in known : i >= j]]>>

\* pick(field): <<amount>>, or <<>> for None
pick(ids_by_field, amounts, field) ==
    LET ids == IF field \in DOMAIN ids_by_field THEN ids_by_field[field] ELSE <<>>
        known == {i \in 1..Len(ids) : ids[i] \in DOMAIN amounts}
    IN  IF known = {} THEN <<>>
        ELSE <<amounts[ids[CHOOSE i \in known : \A j \in known : i <= j]]>>

MANDATORY_FIELDS == {"calories_kcal", "protein_g", "carbs_g", "fat_g"}

\* NutritionFacts.__post_init__: the first field, in declaration order, that
\* is present and negative raises; facts maps the present fields to amounts
NutritionFacts(facts) ==
    LET bad == {i \in 1..Len(NUTRIENT_FIELDS) :
                   /\ NUTRIENT_FIELDS[i] \in DOMAIN facts
                   /\ facts[NUTRIENT_FIELDS[i]] < 0}
    IN  IF bad = {} THEN Returned(<<facts>>)
        ELSE Raised("ValueError", "must be non-negative", <<>>,
                    NUTRIENT_FIELDS[CHOOSE i \in bad : \A j \in bad : i <= j], 0)

_build_nutrition_facts_Unvalidated(ids_by_field, amounts) ==
    LET present == {f \in DOMAIN NUTRIENT_NAME_PREFERENCES :
                       pick(ids_by_field, amounts, f) # <<>>}
    IN  IF \E f \in MANDATORY_FIELDS : f \notin present
        THEN Raised("ValueError", "Missing required nutrient values for selected food",
                    <<>>, "", 0)
        ELSE Returned(<<[f \in present |-> pick(ids_by_field, amounts, f)[1]]>>)

_build_nutrition_facts(ids_by_field, amounts) ==
    LET present == {f \in DOMAIN NUTRIENT_NAME_PREFERENCES :
                       pick(ids_by_field, amounts, f) # <<>>}
    IN  IF \E f \in MANDATORY_FIELDS : f \notin present
        THEN Raised("ValueError", "Missing required nutrient values for selected food",
                    <<>>, "", 0)
        ELSE NutritionFacts([f \in present |-> pick(ids_by_field, amounts, f)[1]])

\* DbMatch.__post_init__
DbMatch(id, desc, facts) ==
    IF id = "" THEN Raised("ValueError", "must be a non-empty string", <<>>, "fdc_id", 0)
    ELSE IF desc = <<>> \/ Strip(desc) = <<>>
    THEN Raised("ValueError", "must be a non-empty string", <<>>, "description", 0)
    ELSE Returned(<<[fdc_id |-> id, description |-> desc, per_100g |-> facts,
                     db_name |-> "USDA FoodData Central"]>>)

(***************************************************************************)
(* The inputs the model draws from.                                        *)
(***************************************************************************)
FoodRow(id, tag, desc) == [fdc_id |-> id, data_type |-> tag, description |-> desc]

FoodRows ==
    { FoodRow("1", "foundation_food", <<"a", " ", "b">>),
      FoodRow("2", "foundation_food", <<"A", "-", "b">>),
      FoodRow("3", "custom_food", <<"b">>),
      FoodRow("4", "", <<" ", "a">>),
      FoodRow("", "foundation_food", <<"a", " ", "b">>) }

RECURSIVE SeqsUpTo(_, _)
SeqsUpTo(S, n) ==
    IF n = 0 THEN {<<>>}
    ELSE LET shorter == SeqsUpTo(S, n - 1)
         IN  shorter \cup {Append(t, x) : t \in {u \in shorter : Len(u) = n - 1}, x \in S}

SearchQueries == { <<"a", " ", "b">>, <<"a">>, <<"B">>, <<"-">> }

PreferChoices ==
    { NoArg,
      [given |-> TRUE, types |-> {}],
      [given |-> TRUE, types |-> {"foundation_food"}] }

Directories == {RequiredFileSet} \cup {RequiredFileSet \ {f} : f \in RequiredFileSet}

DataTypeTags == {"", "foundation_food", "branded_food"}

(***************************************************************************)
(* search_usda_foods called on its own.                                    *)
(***************************************************************************)
NoLookup ==
    /\ pc = "idle"
    /\ query = <<>>
    /\ prefer_types = NoArg
    /\ limit = 0
    /\ fallback_queries = [given |-> FALSE, list |-> <<>>]
    /\ use_llm_fallback = FALSE
    /\ matches = <<>>
    /\ alt_pos = 0
    /\ unique_matches = <<>>
    /\ nutrient_ids = EmptyMap
    /\ required_ids = {}
    /\ cand_pos = 0
    /\ last_error = Pending
    /\ outcome = Pending
    /\ log = <<>>
    /\ description = <<>>
    /\ data_type = ""
    /\ score = 0

NoCall ==
    /\ NoLookup
    /\ nutrient_index = EmptyMap
    /\ loaded_amounts = EmptyMap
    /\ fdc_id = ""
    /\ cache_files = EmptyMap
    /\ raw = <<>>
    /\ writers = EmptyMap

InitSearch ==
    /\ files \in Directories
    /\ food \in IF "food.csv" \in files THEN SeqsUpTo(FoodRows, MaxRows) ELSE {<<>>}
    /\ nutrient = <<>>
    /\ food_nutrient = <<>>
    /\ NoCall

SearchCall(q, K, prefer_arg) ==
    LET r == search_usda_foods(q, files, food, K, prefer_arg, NoMaxRows)
    IN  /\ pc = "idle"
        /\ query' = q
        /\ limit' = K
        /\ prefer_types' = prefer_arg
        /\ matches' = r.value
        /\ outcome' = r
        /\ pc' = IF r.kind = "return" THEN "returned" ELSE "raised"
        /\ UNCHANGED <<files, food, nutrient, food_nutrient, fallback_queries,
                       use_llm_fallback, alt_pos, unique_matches, nutrient_ids,
                       required_ids, cand_pos, last_error, log, description,
                       data_type, score, standalone>>

NextSearch ==
    /\ pc = "idle"
    /\ \E q \in SearchQueries, K \in 1..MaxLimit, prefer_arg \in PreferChoices :
            SearchCall(q, K, prefer_arg)

SpecSearch == InitSearch /\ [][NextSearch]_vars

(***************************************************************************)
(* _score_description called on its own, as the scanner calls it.          *)
(***************************************************************************)
InitScore ==
    /\ files = RequiredFileSet
    /\ food = <<>>
    /\ nutrient = <<>>
    /\ food_nutrient = <<>>
    /\ NoCall

ScoreCall(q, desc, tag) ==
    /\ pc = "idle"
    /\ query' = q
    /\ description' = desc
    /\ data_type' = tag
    /\ score' = _score_description(_normalize_text(q), SplitSet(_normalize_text(q)), desc, tag)
    /\ pc' = "returned"
    /\ UNCHANGED <<files, food, nutrient, food_nutrient, prefer_types, limit,
                   fallback_queries, use_llm_fallback, matches, alt_pos,
                   unique_matches, nutrient_ids, required_ids, cand_pos, last_error,
                   outcome, log, standalone>>

ScoreQueries == TextsUpTo(MaxQueryLen)

ScoreDescriptions == TextsUpTo(MaxDescLen)

NextScore ==
    /\ pc = "idle"
    /\ \E q \in ScoreQueries, desc \in ScoreDescriptions, tag \in DataTypeTags :
            ScoreCall(q, desc, tag)

SpecScore == InitScore /\ [][NextScore]_vars

(***************************************************************************)
(* lookup_usda_food, one action per stage.  log records, in order, every   *)
(* call of the scanner, of the suggestion capability and every read of a   *)
(* nutrient table.                                                         *)
(***************************************************************************)
LOOKUP_LIMIT == 20

LookupRows ==
    { FoodRow("1", "foundation_food", <<"a", " ", "b">>),
      FoodRow("3", "branded_food", <<"b">>),
      FoodRow("1", "branded_food", <<"b", " ", "a">>) }

NutrientRow(i, n, u) == [id |-> i, name |-> n, unit_name |-> u]

Vocabularies ==
    { << NutrientRow("1062", "Energy", "kJ"), NutrientRow("1008", "Energy", "KCAL"),
         NutrientRow("1003", "Protein", "G"),
         NutrientRow("1005", "Carbohydrate, by difference", "G"),
         NutrientRow("1004", "Total lipid (fat)", "G"),
         NutrientRow("2000", "Total Sugars", "G") >> }

Amt(f, n, v) == [fdc_id |-> f, nutrient_id |-> n, amount |-> Num(v)]

CompleteFood(f) == << Amt(f, "1008", 250), Amt(f, "1003", 10), Amt(f, "1005", 20), Amt(f, "1004", 5) >>

FoodWithoutFat(f) == << Amt(f, "1008", 250), Amt(f, "1003", 10), Amt(f, "1005", 20) >>

FoodWithNegative(f) == << Amt(f, "1008", 250), Amt(f, "1003", -1), Amt(f, "1005", 20), Amt(f, "1004", 5) >>

AmountTables ==
    { CompleteFood("1") \o FoodWithoutFat("3"),
      FoodWithNegative("1") \o CompleteFood("3"),
      FoodWithNegative("1") \o FoodWithoutFat("3") }

LookupQueries == { <<"a", " ", "b">>, <<"a", "b">>, <<"-">>, <<>> }

FallbackTexts == { <<"b">>, <<"-">> }

LookupPreferChoices == { NoArg, [given |-> TRUE, types |-> {"branded_food"}] }

NoneList == [given |-> FALSE, list |-> <<>>]

GivenList(l) == [given |-> TRUE, list |-> l]

FallbackChoices == {NoneList} \cup {GivenList(l) : l \in SeqsUpTo(FallbackTexts, MaxFallbacks)}

Event(o, t, i, K, p) == [op |-> o, text |-> t, id |-> i, limit |-> K, prefer |-> p]

Init ==
    /\ files \in Directories
    /\ food \in IF "food.csv" \in files THEN SeqsUpTo(LookupRows, MaxFoods) ELSE {<<>>}
    /\ nutrient \in IF "nutrient.csv" \in files THEN Vocabularies ELSE {<<>>}
    /\ food_nutrient \in IF "food_nutrient.csv" \in files THEN AmountTables ELSE {<<>>}
    /\ NoCall

\* for alt_query in fallback_queries or []
FallbackList == IF fallback_queries.given THEN fallback_queries.list ELSE <<>>

NeedsSuggestion_IgnoresList(fallback_arg, llm) == llm

\* line 353: the condition under which the suggestion capability is invoked
NeedsSuggestion(fallback_arg, llm) == ~fallback_arg.given /\ llm

AfterScan_StopsAtFirstHit(pool, scanned, total) ==
    IF scanned < total /\ pool = <<>> THEN "fallback" ELSE "dedup"

\* line 355: the loop goes on while fallback queries remain
AfterScan(pool, scanned, total) == IF scanned < total THEN "fallback" ELSE "dedup"

NoMatchError_QuotesLastTried(q, alts) ==
    Raised("ValueError", "No USDA matches found for query",
           IF alts # <<>> THEN alts[Len(alts)] ELSE q, "", 0)

\* line 362: the no-match error quotes the query argument
NoMatchError(q, alts) == Raised("ValueError", "No USDA matches found for query", q, "", 0)

NextCandidate_Reversed(unique, tried) == unique[Len(unique) - tried]

\* line 376: the candidates are tried in the order of unique_matches
NextCandidate(unique, tried) == unique[tried + 1]

RecordError_KeepsFirst(kept, exc) == IF kept.kind # "pending" THEN kept ELSE exc

\* line 383: the error of the candidate that just failed replaces the kept one
RecordError(kept, exc) == exc

\* lines 350-354: the directory check, the primary search, and the branch
LookupCall(q, prefer_arg, fallback_arg, llm) ==
    LET base_dir == _resolve_data_dir(files)
        r == search_usda_foods(q, files, food, LOOKUP_LIMIT, prefer_arg, NoMaxRows)
    IN  /\ pc = "idle"
        /\ query' = q
        /\ prefer_types' = prefer_arg
        /\ fallback_queries' = fallback_arg
        /\ use_llm_fallback' = llm
        /\ IF base_dir.kind # "return"
           THEN /\ outcome' = base_dir
                /\ pc' = "raised"
                /\ UNCHANGED <<matches, log>>
           ELSE /\ log' = Append(log, Event("search", q, "", LOOKUP_LIMIT, prefer_arg))
                /\ matches' = r.value
                /\ outcome' = IF r.kind = "return" THEN outcome ELSE r
                /\ pc' = IF r.kind # "return" THEN "raised"
                         ELSE IF r.value # <<>> THEN "dedup"
                         ELSE IF NeedsSuggestion(fallback_arg, llm) THEN "suggest"
                         ELSE AfterScan(<<>>, 0, Len(IF fallback_arg.given THEN fallback_arg.list
                                                   ELSE <<>>))
        /\ UNCHANGED <<files, food, nutrient, food_nutrient, limit, alt_pos,
                       unique_matches, nutrient_ids, required_ids, cand_pos,
                       last_error, description, data_type, score, standalone>>

\* line 354, suggest_fallback_queries: the capability answers with a list of
\* at most 5 stripped, non-blank phrases, or fails
SuggestionFailures ==
    { Raised("ValueError", "LLM_API_KEY is required", <<>>, "", 0),
      Raised("HTTPError", "", <<>>, "", 0) }

Suggestions ==
    {l \in SeqsUpTo(FallbackTexts, MaxFallbacks) :
        Len(l) <= 5 /\ \A i \in 1..Len(l) : Strip(l[i]) = l[i] /\ l[i] # <<>>}

Suggest(answer) ==
    /\ pc = "suggest"
    /\ log' = Append(log, Event("suggest", query, "", 0, NoArg))
    /\ IF answer.kind # "return"
       THEN /\ outcome' = answer
            /\ pc' = "raised"
            /\ UNCHANGED fallback_queries
       ELSE /\ fallback_queries' = GivenList(answer.value)
            /\ pc' = AfterScan(<<>>, 0, Len(answer.value))
            /\ UNCHANGED outcome
    /\ UNCHANGED <<files, food, nutrient, food_nutrient, query, prefer_types, limit,
                   use_llm_fallback, matches, alt_pos, unique_matches, nutrient_ids,
                   required_ids, cand_pos, last_error, description, data_type, score,
                   standalone>>

\* lines 355-360: one iteration of the loop over the fallback queries
FallbackScan ==
    LET alt_query == FallbackList[alt_pos + 1]
        r == search_usda_foods(alt_query, files, food, LOOKUP_LIMIT, prefer_types, NoMaxRows)
    IN  /\ pc = "fallback"
        /\ alt_pos < Len(FallbackList)
        /\ log' = Append(log, Event("search", alt_query, "", LOOKUP_LIMIT, prefer_types))
        /\ alt_pos' = alt_pos + 1
        /\ IF r.kind # "return"
           THEN /\ outcome' = r
                /\ pc' = "raised"
                /\ UNCHANGED matches
           ELSE /\ matches' = matches \o r.value
                /\ pc' = AfterScan(matches \o r.value, alt_pos + 1, Len(FallbackList))
                /\ UNCHANGED outcome
        /\ UNCHANGED <<files, food, nutrient, food_nutrient, query, prefer_types, limit,
                       fallback_queries, use_llm_fallback, unique_matches, nutrient_ids,
                       required_ids, cand_pos, last_error, description, data_type, score,
                   standalone>>

AddUnique_ReplacesEarlier(unique, seen, candidate) ==
    IF candidate.fdc_id \in seen
    THEN [k \in 1..Len(unique) |->
             IF unique[k].fdc_id = candidate.fdc_id THEN candidate ELSE unique[k]]
    ELSE Append(unique, candidate)

\* lines 366-369: the body of the loop
AddUnique(unique, seen, candidate) ==
    IF candidate.fdc_id \in seen THEN unique ELSE Append(unique, candidate)

\* lines 363-369: the first occurrence of every food id, in order
RECURSIVE UniqueByFoodId(_, _, _)
UniqueByFoodId(pool, seen, unique) ==
    IF pool = <<>> THEN unique
    ELSE UniqueByFoodId(Tail(pool), seen \cup {Head(pool).fdc_id},
                        AddUnique(unique, seen, Head(pool)))

\* lines 361-375: the no-match check, the deduplication, the vocabulary
Deduplicate ==
    /\ pc = "dedup"
    /\ IF matches = <<>>
       THEN /\ outcome' = NoMatchError(query, FallbackList)
            /\ pc' = "raised"
            /\ UNCHANGED <<unique_matches, nutrient_ids, required_ids, last_error, log>>
       ELSE /\ unique_matches' = UniqueByFoodId(matches, {}, <<>>)
            /\ nutrient_ids' = _resolve_nutrient_ids(nutrient)
            /\ required_ids' = RequiredIds(_resolve_nutrient_ids(nutrient))
            /\ last_error' = Pending
            /\ log' = Append(log, Event("read nutrient.csv", <<>>, "", 0, NoArg))
            /\ pc' = "try"
            /\ UNCHANGED outcome
    /\ UNCHANGED <<files, food, nutrient, food_nutrient, query, prefer_types, limit,
                   fallback_queries, use_llm_fallback, matches, alt_pos, cand_pos,
                   description, data_type, score, standalone>>

\* lines 376-389: one iteration of the loop over the candidates
TryCandidate ==
    LET candidate == NextCandidate(unique_matches, cand_pos)
        nutrient_amounts == _load_nutrient_amounts(candidate.fdc_id, food_nutrient, required_ids)
        facts == _build_nutrition_facts(nutrient_ids, nutrient_amounts)
    IN  /\ pc = "try"
        /\ cand_pos < Len(unique_matches)
        /\ log' = Append(log, Event("read food_nutrient.csv", <<>>, candidate.fdc_id, 0, NoArg))
        /\ cand_pos' = cand_pos + 1
        /\ IF facts.kind = "ValueError"
           THEN /\ last_error' = RecordError(last_error, [facts EXCEPT !.by = cand_pos + 1])
                /\ UNCHANGED <<outcome, pc>>
           ELSE LET made == DbMatch(candidate.fdc_id, candidate.description, facts.value[1])
                IN  /\ outcome' = made
                    /\ pc' = IF made.kind = "return" THEN "returned" ELSE "raised"
                    /\ UNCHANGED last_error
        /\ UNCHANGED <<files, food, nutrient, food_nutrient, query, prefer_types, limit,
                       fallback_queries, use_llm_fallback, matches, alt_pos,
                       unique_matches, nutrient_ids, required_ids, description,
                       data_type, score, standalone>>

\* lines 391-393: every candidate failed
Exhausted ==
    /\ pc = "try"
    /\ cand_pos = Len(unique_matches)
    /\ outcome' = IF last_error.kind # "pending" THEN last_error
                  ELSE NoMatchError(query, FallbackList)
    /\ pc' = "raised"
    /\ UNCHANGED <<files, food, nutrient, food_nutrient, query, prefer_types, limit,
                   fallback_queries, use_llm_fallback, matches, alt_pos, unique_matches,
                   nutrient_ids, required_ids, cand_pos, last_error, log, description,
                   data_type, score, standalone>>

Next ==
    \/ /\ pc = "idle"
       /\ \E q \in LookupQueries, prefer_arg \in LookupPreferChoices,
             fallback_arg \in FallbackChoices, llm \in BOOLEAN :
               LookupCall(q, prefer_arg, fallback_arg, llm)
    \/ \E answer \in SuggestionFailures \cup {Returned(l) : l \in Suggestions} : Suggest(answer)
    \/ FallbackScan
    \/ Deduplicate
    \/ TryCandidate
    \/ Exhausted

Spec == Init /\ [][Next]_vars

(***************************************************************************)
(* Properties of lookup_usda_food, checked under Spec.                     *)
(***************************************************************************)
Finished == pc \in {"returned", "raised"}

SearchEvents == SelectSeq(log, LAMBDA e : e.op = "search")

LoadEvents == SelectSeq(log, LAMBDA e : e.op = "read food_nutrient.csv")

\* what the scanner answers to a query of this call
Scan(q) == search_usda_foods(q, files, food, LOOKUP_LIMIT, prefer_types, NoMaxRows)

PrimaryEmpty == Scan(query) = Returned(<<>>)

\* the suggestion capability was invoked and gave no list
SuggestionFailed == ~fallback_queries.given /\ \E i \in 1..Len(log) : log[i].op = "suggest"

\* nutrient loading plus facts assembly for one candidate, from the tables
Assembly(c) ==
    LET ids == _resolve_nutrient_ids(nutrient)
    IN  _build_nutrition_facts(ids, _load_nutrient_amounts(c.fdc_id, food_nutrient, RequiredIds(ids)))

\* C1: when the lookup returns a match, the candidates were attempted in the
\* order of the deduplicated pool, every one before the match failed
\* assembly, the match is the first that assembles, and none after it was
\* attempted.
FirstResolvableWins ==
    pc = "returned" =>
        LET k == Len(LoadEvents)
        IN  /\ k \in 1..Len(unique_matches)
            /\ \A j \in 1..k : LoadEvents[j].id = unique_matches[j].fdc_id
            /\ \A j \in 1..(k - 1) : Assembly(unique_matches[j]).kind = "ValueError"
            /\ Assembly(unique_matches[k]).kind = "return"
            /\ outcome.value[1].fdc_id = unique_matches[k].fdc_id
            /\ outcome.value[1].description = unique_matches[k].description
            /\ outcome.value[1].per_100g = Assembly(unique_matches[k]).value[1]

FirstResolvableWins_Witness ==
    /\ pc = "returned"
    /\ Len(LoadEvents) = 2
    /\ Assembly(unique_matches[1]).kind = "ValueError"
    /\ outcome.value[1].fdc_id = unique_matches[2].fdc_id

\* C2: when the pool is non-empty and every candidate fails assembly, the
\* lookup raises the error of the last candidate tried, not the first
\* candidate's and not the no-match error.
LastErrorSurfaces ==
    ( /\ Finished
      /\ unique_matches # <<>>
      /\ \A j \in 1..Len(unique_matches) : Assembly(unique_matches[j]).kind = "ValueError" )
    => /\ pc = "raised"
       /\ outcome = [Assembly(unique_matches[Len(unique_matches)])
                        EXCEPT !.by = Len(unique_matches)]
       /\ outcome.msg # "No USDA matches found for query"

LastErrorSurfaces_Witness ==
    /\ pc = "raised"
    /\ Len(unique_matches) = 2
    /\ outcome.by = 2
    /\ Assembly(unique_matches[1]).kind = "ValueError"
    /\ Assembly(unique_matches[1]).msg # outcome.msg

\* C3: when the primary search and the search of every fallback query
\* return no candidate, the lookup raises the no-match error quoting the
\* primary query, and no nutrient table is read.
NoMatchNamesPrimaryQuery ==
    ( /\ Finished
      /\ log # <<>>
      /\ ~SuggestionFailed
      /\ PrimaryEmpty
      /\ \A i \in 1..Len(FallbackList) : Scan(FallbackList[i]) = Returned(<<>>) )
    => /\ outcome = Raised("ValueError", "No USDA matches found for query",
                           SearchEvents[1].text, "", 0)
       /\ \A i \in 1..Len(log) :
             log[i].op \notin {"read nutrient.csv", "read food_nutrient.csv"}

NoMatchNamesPrimaryQuery_Witness ==
    /\ pc = "raised"
    /\ outcome.msg = "No USDA matches found for query"
    /\ Len(FallbackList) = 2
    /\ Len(SearchEvents) = 3
    /\ FallbackList[2] # query
    /\ food # <<>>

\* C4: a fallback query is scanned, and the suggestion capability invoked,
\* only when the primary search returned no candidate; the suggestion
\* capability is invoked at most once, and only when fallback_queries is
\* None and use_llm_fallback is true.
FallbackOnlyAfterEmptyPrimaryStep ==
    Len(log') > Len(log) =>
        LET e == log'[Len(log')]
        IN  /\ (e.op = "suggest" =>
                  /\ log # <<>>
                  /\ Scan(log[1].text) = Returned(<<>>)
                  /\ ~fallback_queries.given
                  /\ use_llm_fallback
                  /\ \A i \in 1..Len(log) : log[i].op # "suggest")
            /\ (e.op = "search" /\ log # <<>> => Scan(log[1].text) = Returned(<<>>))

FallbackOnlyAfterEmptyPrimary == [][FallbackOnlyAfterEmptyPrimaryStep]_vars

FallbackOnlyAfterEmptyPrimary_Witness ==
    /\ Finished
    /\ Len(log) >= 3
    /\ log[2].op = "suggest"
    /\ log[3].op = "search"

\* the fallback queries that the scanner rejects: empty once normalized
InvalidFallbacks == {i \in 1..Len(FallbackList) : _normalize_text(FallbackList[i]) = <<>>}

RECURSIVE PoolOf(_)
PoolOf(queries) ==
    IF queries = <<>> THEN <<>>
    ELSE PoolOf(SubSeq(queries, 1, Len(queries) - 1)) \o Scan(queries[Len(queries)]).value

\* C5 as stated: when the primary search is empty, every fallback query of
\* the list is scanned, with limit 20 and the same filter, its results
\* appended to the pool, and none is skipped for any reason.
EveryFallbackScanned ==
    (Finished /\ log # <<>> /\ PrimaryEmpty /\ ~SuggestionFailed) =>
        /\ Len(SearchEvents) = 1 + Len(FallbackList)
        /\ \A i \in 1..Len(FallbackList) :
              SearchEvents[i + 1] = Event("search", FallbackList[i], "", LOOKUP_LIMIT, prefer_types)
        /\ matches = PoolOf(FallbackList)

\* C5 amended: when the primary search is empty, the fallback queries are
\* scanned in list order with limit 20 and the same filter and their
\* results appended, none being skipped after an earlier one produced
\* matches; the scan stops only at a fallback query that is empty once
\* normalized, where the lookup fails with the scanner's invalid-input error.
FallbacksScannedUntilInvalid ==
    (Finished /\ log # <<>> /\ PrimaryEmpty /\ ~SuggestionFailed) =>
        LET n == IF InvalidFallbacks = {} THEN Len(FallbackList)
                 ELSE CHOOSE i \in InvalidFallbacks : \A j \in InvalidFallbacks : i <= j
        IN  /\ Len(SearchEvents) = 1 + n
            /\ \A i \in 1..n :
                  SearchEvents[i + 1] = Event("search", FallbackList[i], "", LOOKUP_LIMIT, prefer_types)
            /\ InvalidFallbacks = {} => matches = PoolOf(FallbackList)
            /\ InvalidFallbacks # {} =>
                  /\ pc = "raised"
                  /\ outcome = Raised("ValueError", "query must be non-empty", <<>>, "", 0)

FallbacksScannedUntilInvalid_Witness ==
    /\ Finished
    /\ log # <<>>
    /\ PrimaryEmpty
    /\ Len(FallbackList) = 2
    /\ InvalidFallbacks = {}
    /\ Len(SearchEvents) = 3
    /\ Scan(FallbackList[1]).value # <<>>
    /\ Scan(FallbackList[2]).value # <<>>

\* the setup error for one file of the directory that is missing
IsSetupError(r) ==
    \E f \in RequiredFileSet \ files :
        r = Raised("FileNotFoundError", "Missing USDA file", <<>>, f, 0)

\* C12: with a required table missing, the lookup raises the setup error for
\* any query, having called neither the scanner nor the suggestion
\* capability nor read a nutrient table, and the scanner raises it for every
\* query that is non-empty after trim, whatever the limit and the filter.
SetupErrorBeforeAnyWork ==
    (files # RequiredFileSet /\ pc # "idle") =>
        /\ pc = "raised"
        /\ IsSetupError(outcome)
        /\ log = <<>>
        /\ matches = <<>>
        /\ \A q \in LookupQueries, K \in {1, LOOKUP_LIMIT} :
              Strip(q) # <<>> => IsSetupError(search_usda_foods(q, files, food, K,
                                                                prefer_types, NoMaxRows))

SetupErrorBeforeAnyWork_Witness ==
    /\ pc = "raised"
    /\ "nutrient.csv" \notin files
    /\ use_llm_fallback
    /\ ~fallback_queries.given
    /\ \E i \in 1..Len(food) : Lower(food[i].description) = query
    /\ log = <<>>

Ids(candidates) == {candidates[i].fdc_id : i \in 1..Len(candidates)}

\* the deduplication has run on a non-empty pool
Deduplicated == \E i \in 1..Len(log) : log[i].op = "read nutrient.csv"

\* the position in the pool of the first candidate with this food id
FirstOccurrence(id) ==
    CHOOSE i \in 1..Len(matches) :
        /\ matches[i].fdc_id = id
        /\ \A j \in 1..(i - 1) : matches[j].fdc_id # id

\* C13: the deduplicated list holds no food id twice, holds every food id of
\* the pool, and holds for each id the first candidate of the pool with
\* that id, in the order of these first occurrences.
DedupKeepsFirstOccurrences ==
    Deduplicated =>
        /\ \A i \in 1..Len(unique_matches), j \in 1..Len(unique_matches) :
              i # j => unique_matches[i].fdc_id # unique_matches[j].fdc_id
        /\ Ids(unique_matches) = Ids(matches)
        /\ \A k \in 1..Len(unique_matches) :
              unique_matches[k] = matches[FirstOccurrence(unique_matches[k].fdc_id)]
        /\ \A i \in 1..Len(unique_matches), j \in 1..Len(unique_matches) :
              i < j => FirstOccurrence(unique_matches[i].fdc_id)
                           < FirstOccurrence(unique_matches[j].fdc_id)

DedupKeepsFirstOccurrences_Witness ==
    /\ Deduplicated
    /\ Len(unique_matches) = 2
    /\ Len(matches) = 4
    /\ matches[3].fdc_id = matches[1].fdc_id
    /\ matches[4].fdc_id = matches[2].fdc_id

(***************************************************************************)
(* Properties of search_usda_foods, checked under SpecSearch.              *)
(***************************************************************************)
\* the score the scanner gives a row for the query of this call
RowScore(row) ==
    _score_description(_normalize_text(query), SplitSet(_normalize_text(query)),
                       Strip(row.description), row.data_type)

\* the row passes every test of the scanner but the source-type filter
ScoresAsCandidate(row) ==
    /\ Strip(row.description) # <<>>
    /\ RowScore(row) > 0
    /\ row.fdc_id # ""

\* the set built from prefer_types
PreferSet == IF prefer_types.given THEN prefer_types.types ELSE PreferredTypeSet

\* the rows the scanner offers to the bounded structure
Offered(rows) ==
    {i \in 1..Len(rows) :
        /\ ScoresAsCandidate(rows[i])
        /\ ~(PreferSet # {} /\ rows[i].data_type # "" /\ rows[i].data_type \notin PreferSet)}

CandidateOf(row) ==
    FoodCandidate(row.fdc_id, Strip(row.description), row.data_type, RowScore(row))

\* C6: the scanner returns at most K candidates, each with a score above 0,
\* a non-empty food id and a non-empty description.
AtMostKPositive ==
    pc = "returned" =>
        /\ Len(matches) <= limit
        /\ \A i \in 1..Len(matches) :
              /\ matches[i].score > 0
              /\ matches[i].fdc_id # ""
              /\ matches[i].description # <<>>

AtMostKPositive_Witness ==
    /\ pc = "returned"
    /\ Len(matches) = limit
    /\ Cardinality(Offered(food)) > limit
    /\ \E i \in 1..Len(food) : food[i].fdc_id = "" /\ RowScore(food[i]) > 0

PermutedTables ==
    {[i \in 1..Len(food) |-> food[p[i]]] : p \in Permutations(1..Len(food))}

ScanTable(rows) == search_usda_foods(query, files, rows, limit, prefer_types, NoMaxRows)

NoTieAtCut ==
    \A i \in Offered(food) :
        \/ Cardinality({j \in Offered(food) : RowScore(food[j]) > RowScore(food[i])}) >= limit
        \/ Cardinality({j \in Offered(food) : RowScore(food[j]) >= RowScore(food[i])}) <= limit

TiesInScanOrder ==
    pc = "returned" =>
        \A i \in 1..Len(matches), j \in 1..Len(matches) :
            i < j =>
                /\ matches[i].score >= matches[j].score
                /\ matches[i].score = matches[j].score =>
                      \E ri \in 1..Len(food), rj \in 1..Len(food) :
                          /\ ri < rj
                          /\ CandidateOf(food[ri]) = matches[i]
                          /\ CandidateOf(food[rj]) = matches[j]

\* every row that scores and passes the filter is returned while the list
\* stays under capacity
ReturnedUnlessFull(passing) ==
    Len(matches) < limit =>
        \A i \in passing :
            ScoresAsCandidate(food[i]) =>
                \E k \in 1..Len(matches) : matches[k] = CandidateOf(food[i])

UntaggedRows == {i \in 1..Len(food) : food[i].data_type = ""}

\* C9 as stated: for every set S passed as prefer_types, the empty set
\* included, every returned candidate has a source-type that is empty or in
\* S, and rows with an empty source-type are never excluded by the filter.
FilterRespected ==
    (pc = "returned" /\ prefer_types.given) =>
        /\ \A i \in 1..Len(matches) :
              matches[i].data_type = "" \/ matches[i].data_type \in prefer_types.types
        /\ ReturnedUnlessFull(UntaggedRows)

\* C9 amended: for every non-empty set S passed as prefer_types, every
\* returned candidate has a source-type that is empty or in S, and rows with
\* an empty source-type are never excluded by the filter; when the empty
\* set is passed, no row is excluded by its source-type.
FilterRespectedUnlessEmpty ==
    (pc = "returned" /\ prefer_types.given) =>
        /\ prefer_types.types # {} =>
              \A i \in 1..Len(matches) :
                  matches[i].data_type = "" \/ matches[i].data_type \in prefer_types.types
        /\ ReturnedUnlessFull(UntaggedRows)
        /\ prefer_types.types = {} => ReturnedUnlessFull(1..Len(food))

FilterRespectedUnlessEmpty_Witness ==
    /\ pc = "returned"
    /\ prefer_types.given
    /\ prefer_types.types # {}
    /\ Len(matches) < limit
    /\ \E i \in 1..Len(matches) : matches[i].data_type = ""
    /\ \E i \in 1..Len(food) :
          /\ ScoresAsCandidate(food[i])
          /\ food[i].data_type \notin prefer_types.types \cup {""}

\* the rows that pass the source-type filter and score above 0
PassingAndScoring(rows) ==
    {i \in 1..Len(rows) :
        /\ RowScore(rows[i]) > 0
        /\ ~(PreferSet # {} /\ rows[i].data_type # "" /\ rows[i].data_type \notin PreferSet)}

\* how many of the K largest scores of these rows are equal to v
AmongLargest(rows, among, v, K) ==
    LET higher == Cardinality({i \in among : RowScore(rows[i]) > v})
        equal == Cardinality({i \in among : RowScore(rows[i]) = v})
    IN  IF K - higher <= 0 THEN 0
        ELSE IF equal <= K - higher THEN equal ELSE K - higher

\* the returned scores are, as a multiset, the K largest of these rows
ReturnsLargestScores(among) ==
    /\ \A k \in 1..Len(matches) : \E i \in among : RowScore(food[i]) = matches[k].score
    /\ \A i \in among :
          Cardinality({k \in 1..Len(matches) : matches[k].score = RowScore(food[i])})
              = AmongLargest(food, among, RowScore(food[i]), limit)

\* the candidates kept after the first n rows of the table
KeptAfter(n) ==
    ScanRows(SubSeq(food, 1, n), 1, <<>>, _normalize_text(query),
             SplitSet(_normalize_text(query)), PreferSet, limit, NoMaxRows)

\* row n + 1 arrives when K candidates are kept and scores as the lowest kept
TieArrives(n) ==
    /\ n + 1 \in Offered(food)
    /\ Len(KeptAfter(n)) = limit
    /\ \A k \in 1..limit : KeptAfter(n)[k].score >= RowScore(food[n + 1])
    /\ \E k \in 1..limit : KeptAfter(n)[k].score = RowScore(food[n + 1])

NoEvictionOnTie == \A n \in 0..(Len(food) - 1) : TieArrives(n) => KeptAfter(n + 1) = KeptAfter(n)

\* C19 as stated: the scores returned are the K largest scores among all rows
\* that pass the filter and score above 0, and a row scoring as the lowest
\* kept candidate never evicts one.
TopKOfPassingRows ==
    pc = "returned" =>
        /\ ReturnsLargestScores(PassingAndScoring(food))
        /\ NoEvictionOnTie

\* C19 amended: the scores returned are the K largest scores among the rows
\* that pass the filter, score above 0 and have a non-empty food id, and a
\* row scoring as the lowest kept candidate never evicts one.
TopKOfOfferedRows ==
    pc = "returned" =>
        /\ ReturnsLargestScores(Offered(food))
        /\ NoEvictionOnTie

TopKOfOfferedRows_Witness ==
    /\ pc = "returned"
    /\ Len(matches) = limit
    /\ Cardinality(Offered(food)) > limit
    /\ \E n \in 1..(Len(food) - 1) : TieArrives(n)
    /\ \E k \in 1..Len(matches) : matches[k].score > matches[Len(matches)].score

(***************************************************************************)
(* Properties of _score_description, checked under SpecScore.              *)
(***************************************************************************)
ExactScore == 2 * ScoreUnit + DATA_TYPE_BONUS(data_type)

\* C10 as stated: the score is 2.0 + bonus(tag) exactly when the normalized
\* query equals the normalized description.
ExactScoreIffSameNormalForm ==
    pc = "returned" =>
        (score = ExactScore <=> _normalize_text(query) = _normalize_text(description))

\* C10 amended: the score is 2.0 + bonus(tag) exactly when the normalized
\* query equals the normalized description and is not empty.
ExactScoreIffSameNonEmptyNormalForm ==
    pc = "returned" =>
        (score = ExactScore <=>
            /\ _normalize_text(query) = _normalize_text(description)
            /\ _normalize_text(query) # <<>>)

ExactScoreIffSameNonEmptyNormalForm_Witness ==
    /\ pc = "returned"
    /\ score = ExactScore
    /\ Lower(query) # Lower(description)
    /\ data_type = "branded_food"

(***************************************************************************)
(* The vocabulary, the per-food loader and the assembler called as the     *)
(* lookup calls them for one candidate (lines 371-381).                    *)
(***************************************************************************)
\* the nutrient ids of the vocabularies below, in the order of the table
FactsIds == << "1008", "2047", "1003", "1053", "1005", "1050", "1004", "2000" >>

FactsAmount(id) ==
    CASE id = "1008" -> 250 [] id = "2047" -> 240 [] id = "1003" -> 10 [] id = "1053" -> 11
      [] id = "1005" -> 20 [] id = "1050" -> 21 [] id = "1004" -> 5 [] id = "2000" -> 3

BaseVocabulary ==
    << NutrientRow("1008", "Energy", "KCAL"), NutrientRow("1003", "Protein", "G"),
       NutrientRow("1005", "Carbohydrate, by difference", "G"),
       NutrientRow("1004", "Total lipid (fat)", "G"),
       NutrientRow("2000", "Total Sugars", "G") >>

SynonymRows ==
    << NutrientRow("2047", "Energy (Atwater General Factors)", "KCAL"),
       NutrientRow("1053", "Adjusted Protein", "G"),
       NutrientRow("1050", "Carbohydrate, by summation", "G") >>

FactsVocabularies ==
    { BaseVocabulary \o SynonymRows,
      SynonymRows \o Tail(Tail(BaseVocabulary)),
      SubSeq(BaseVocabulary, 1, 3) \o SynonymRows,
      << NutrientRow("", "Energy", "KCAL") >> \o Tail(BaseVocabulary) \o SynonymRows }

\* the amount table of food "1": one row per id of present, in the order of
\* FactsIds, the amount of the id negative being below zero, after a row of
\* another food
FactsTable(present, negative) ==
    LET ids == SelectSeq(FactsIds, LAMBDA id : id \in present)
    IN  << Amt("3", "1004", 9) >> \o
        [k \in 1..Len(ids) |->
            Amt("1", ids[k], IF ids[k] = negative THEN -FactsAmount(ids[k])
                             ELSE FactsAmount(ids[k]))]

FactsTables ==
    {FactsTable(present, negative) :
        present \in SUBSET {FactsIds[i] : i \in 1..Len(FactsIds)},
        negative \in {"", "1003", "2047", "2000"}}

InitFacts ==
    /\ files = RequiredFileSet
    /\ food = <<>>
    /\ nutrient \in FactsVocabularies
    /\ food_nutrient \in FactsTables
    /\ NoLookup
    /\ nutrient_index = EmptyMap
    /\ loaded_amounts = EmptyMap
    /\ fdc_id = "1"
    /\ cache_files = EmptyMap
    /\ raw = <<>>
    /\ writers = EmptyMap

\* lines 371-374
ResolveIds ==
    /\ pc = "idle"
    /\ nutrient_index' = _load_nutrient_index(nutrient)
    /\ nutrient_ids' = _resolve_nutrient_ids(nutrient)
    /\ required_ids' = RequiredIds(_resolve_nutrient_ids(nutrient))
    /\ pc' = "resolved"
    /\ UNCHANGED <<files, food, nutrient, food_nutrient, query, prefer_types, limit,
                   fallback_queries, use_llm_fallback, matches, alt_pos, unique_matches,
                   cand_pos, last_error, outcome, log, description, data_type, score,
                   loaded_amounts, fdc_id, cache_files, raw, writers>>

\* lines 378-380
LoadAmounts ==
    /\ pc = "resolved"
    /\ loaded_amounts' = _load_nutrient_amounts(fdc_id, food_nutrient, required_ids)
    /\ pc' = "loaded"
    /\ UNCHANGED <<files, food, nutrient, food_nutrient, query, prefer_types, limit,
                   fallback_queries, use_llm_fallback, matches, alt_pos, unique_matches,
                   nutrient_ids, required_ids, cand_pos, last_error, outcome, log,
                   description, data_type, score, nutrient_index, fdc_id, cache_files,
                   raw, writers>>

\* line 381
BuildFacts ==
    LET facts == _build_nutrition_facts(nutrient_ids, loaded_amounts)
    IN  /\ pc = "loaded"
        /\ outcome' = facts
        /\ pc' = IF facts.kind = "return" THEN "returned" ELSE "raised"
        /\ UNCHANGED <<files, food, nutrient, food_nutrient, query, prefer_types, limit,
                       fallback_queries, use_llm_fallback, matches, alt_pos,
                       unique_matches, nutrient_ids, required_ids, cand_pos, last_error,
                       log, description, data_type, score, standalone>>

NextFacts == ResolveIds \/ LoadAmounts \/ BuildFacts

SpecFacts == InitFacts /\ [][NextFacts]_vars

(***************************************************************************)
(* Properties of the assembler, checked under SpecFacts.                   *)
(***************************************************************************)
Built == pc \in {"returned", "raised"}

\* the positions in the id list of a field whose id has a loaded amount
WithAmount(field) ==
    IF field \in DOMAIN nutrient_ids
    THEN {i \in 1..Len(nutrient_ids[field]) : nutrient_ids[field][i] \in DOMAIN loaded_amounts}
    ELSE {}

FourMainFields == {"calories_kcal", "protein_g", "carbs_g", "fat_g"}

AllEightFields == {NUTRIENT_FIELDS[i] : i \in 1..Len(NUTRIENT_FIELDS)}

\* the amount of the first id of the field that has one
SelectedAmount(field) ==
    loaded_amounts[nutrient_ids[field][CHOOSE i \in WithAmount(field) :
                                          \A j \in WithAmount(field) : i <= j]]

SomeMainFieldMissing == \E f \in FourMainFields : WithAmount(f) = {}

SomeSelectedNegative ==
    \E f \in AllEightFields : WithAmount(f) # {} /\ SelectedAmount(f) < 0

\* C11 as stated: the assembler fails exactly when one of the four mandatory
\* fields has no id with a loaded amount.
FailsIffMandatoryMissing ==
    Built => (outcome.kind # "return" <=> SomeMainFieldMissing)

\* C11 amended: the assembler fails exactly when one of the four mandatory
\* fields has no id with a loaded amount, or the amount selected for one of
\* the eight fields is negative; a missing optional field never makes it fail.
FailsIffMandatoryMissingOrNegative ==
    Built =>
        /\ outcome.kind # "return" <=> (SomeMainFieldMissing \/ SomeSelectedNegative)
        /\ SomeMainFieldMissing =>
              outcome.msg = "Missing required nutrient values for selected food"
        /\ (~SomeMainFieldMissing /\ SomeSelectedNegative) =>
              outcome.msg = "must be non-negative"

FailsIffMandatoryMissingOrNegative_Witness ==
    /\ pc = "returned"
    /\ WithAmount("sugars_g") = {}
    /\ "sugars_g" \in DOMAIN nutrient_ids
    /\ \E f \in FourMainFields : 1 \notin WithAmount(f)

\* the positions in the synonym list of a field whose name resolves in the
\* vocabulary to an id that has a loaded amount
Qualifying(field) ==
    {i \in 1..Len(NUTRIENT_NAME_PREFERENCES[field]) :
        LET key == LowerStr(NUTRIENT_NAME_PREFERENCES[field][i])
        IN  /\ key \in DOMAIN nutrient_index
            /\ nutrient_index[key].id # ""
            /\ nutrient_index[key].id \in DOMAIN loaded_amounts}

EarliestQualifying(field) ==
    CHOOSE i \in Qualifying(field) : \A j \in Qualifying(field) : i <= j

\* C16: in the facts built, every field holds the amount of the earliest
\* synonym of its preference list whose id resolves in the vocabulary and
\* has a loaded amount, and is absent exactly when no synonym qualifies.
EarliestSynonymWins ==
    pc = "returned" =>
        \A f \in AllEightFields :
            LET facts == outcome.value[1]
            IN  /\ f \in DOMAIN facts <=> Qualifying(f) # {}
                /\ Qualifying(f) # {} =>
                      facts[f] = loaded_amounts[
                          nutrient_index[LowerStr(
                              NUTRIENT_NAME_PREFERENCES[f][EarliestQualifying(f)])].id]

EarliestSynonymWins_Witness ==
    /\ pc = "returned"
    /\ Qualifying("protein_g") = {2}
    /\ "protein" \in DOMAIN nutrient_index
    /\ Qualifying("carbs_g") = {1, 2}
    /\ 1 \notin Qualifying("calories_kcal")
    /\ "energy" \in DOMAIN nutrient_index
    /\ Qualifying("sugars_g") = {}

(***************************************************************************)
(* _load_nutrient_index called on its own.                                 *)
(***************************************************************************)
IndexRowChoices ==
    { NutrientRow("1062", "Energy", "kJ"), NutrientRow("1008", "Energy", "KCAL"),
      NutrientRow("2048", "ENERGY", "kcal"), NutrientRow("1003", "Protein", "G"),
      NutrientRow("9", "", "KCAL") }

InitIndex ==
    /\ files = RequiredFileSet
    /\ food = <<>>
    /\ nutrient \in SeqsUpTo(IndexRowChoices, MaxVocabRows)
    /\ food_nutrient = <<>>
    /\ NoCall

LoadIndex ==
    /\ pc = "idle"
    /\ nutrient_index' = _load_nutrient_index(nutrient)
    /\ pc' = "returned"
    /\ UNCHANGED <<files, food, nutrient, food_nutrient, query, prefer_types, limit,
                   fallback_queries, use_llm_fallback, matches, alt_pos, unique_matches,
                   nutrient_ids, required_ids, cand_pos, last_error, outcome, log,
                   description, data_type, score, loaded_amounts, fdc_id, cache_files,
                   raw, writers>>

NextIndex == LoadIndex

SpecIndex == InitIndex /\ [][NextIndex]_vars

(***************************************************************************)
(* Properties of _load_nutrient_index, checked under SpecIndex.            *)
(***************************************************************************)
\* the rows of the vocabulary that carry this name, whatever the case
RowsNamed(key) == {i \in 1..Len(nutrient) : nutrient[i].name # "" /\ LowerStr(nutrient[i].name) = key}

KcalRowsNamed(key) == {i \in RowsNamed(key) : nutrient[i].unit_name \in {"KCAL", "kcal", "Kcal"}}

First(positions) == CHOOSE i \in positions : \A j \in positions : i <= j

\* C14: for every name of the vocabulary, the index keeps the first row of
\* that name whose unit is kcal if there is one, and the first row of that
\* name otherwise.
FirstKcalElseFirstRow ==
    pc = "returned" =>
        /\ DOMAIN nutrient_index = {LowerStr(nutrient[i].name) :
                                       i \in {j \in 1..Len(nutrient) : nutrient[j].name # ""}}
        /\ \A key \in DOMAIN nutrient_index :
              LET kept == IF KcalRowsNamed(key) # {} THEN First(KcalRowsNamed(key))
                          ELSE First(RowsNamed(key))
              IN  nutrient_index[key].id = nutrient[kept].id

FirstKcalElseFirstRow_Witness ==
    /\ pc = "returned"
    /\ Len(nutrient) = 3
    /\ RowsNamed("energy") = {1, 2, 3}
    /\ KcalRowsNamed("energy") = {2, 3}
    /\ nutrient[2].id # nutrient[3].id
    /\ nutrient_index["energy"].id = nutrient[2].id

(***************************************************************************)
(* _load_nutrient_amounts called on its own.                               *)
(***************************************************************************)
AmountRow(f, n, c) == [fdc_id |-> f, nutrient_id |-> n, amount |-> c]

AmountRowChoices ==
    { AmountRow("1", "1008", Num(5)), AmountRow("1", "1008", Num(7)),
      AmountRow("1", "1008", EmptyCell), AmountRow("1", "1008", TextCell),
      AmountRow("3", "1008", Num(9)), AmountRow("1", "1003", Num(2)),
      AmountRow("1", "9999", Num(4)) }

RequiredChoices == { {"1008"}, {"1008", "1003"} }

InitAmounts ==
    /\ files = RequiredFileSet
    /\ food = <<>>
    /\ nutrient = <<>>
    /\ food_nutrient \in SeqsUpTo(AmountRowChoices, MaxAmountRows)
    /\ pc = "idle"
    /\ query = <<>>
    /\ prefer_types = NoArg
    /\ limit = 0
    /\ fallback_queries = [given |-> FALSE, list |-> <<>>]
    /\ use_llm_fallback = FALSE
    /\ matches = <<>>
    /\ alt_pos = 0
    /\ unique_matches = <<>>
    /\ nutrient_ids = EmptyMap
    /\ required_ids \in RequiredChoices
    /\ cand_pos = 0
    /\ last_error = Pending
    /\ outcome = Pending
    /\ log = <<>>
    /\ description = <<>>
    /\ data_type = ""
    /\ score = 0
    /\ nutrient_index = EmptyMap
    /\ loaded_amounts = EmptyMap
    /\ fdc_id = "1"
    /\ cache_files = EmptyMap
    /\ raw = <<>>
    /\ writers = EmptyMap

AmountsCall ==
    /\ pc = "idle"
    /\ loaded_amounts' = _load_nutrient_amounts(fdc_id, food_nutrient, required_ids)
    /\ pc' = "returned"
    /\ UNCHANGED <<files, food, nutrient, food_nutrient, query, prefer_types, limit,
                   fallback_queries, use_llm_fallback, matches, alt_pos, unique_matches,
                   nutrient_ids, required_ids, cand_pos, last_error, outcome, log,
                   description, data_type, score, nutrient_index, fdc_id, cache_files,
                   raw, writers>>

NextAmounts == AmountsCall

SpecAmounts == InitAmounts /\ [][NextAmounts]_vars

(***************************************************************************)
(* Properties of _load_nutrient_amounts, checked under SpecAmounts.        *)
(***************************************************************************)
\* the rows of the target food for this nutrient id whose amount is a number
NumberRows(id) ==
    {i \in 1..Len(food_nutrient) :
        /\ food_nutrient[i].fdc_id = fdc_id
        /\ food_nutrient[i].nutrient_id = id
        /\ food_nutrient[i].amount.cell = "number"}

\* C15: the map returned holds, for every required nutrient id, the amount
\* of the first row of the target food and that id whose amount is a number,
\* and holds nothing else.
FirstParsedAmountWins ==
    pc = "returned" =>
        /\ DOMAIN loaded_amounts = {id \in required_ids : NumberRows(id) # {}}
        /\ \A id \in DOMAIN loaded_amounts :
              loaded_amounts[id] = food_nutrient[First(NumberRows(id))].amount.val

FirstParsedAmountWins_Witness ==
    /\ pc = "returned"
    /\ Len(food_nutrient) = 3
    /\ food_nutrient[1].amount.cell # "number"
    /\ food_nutrient[1].fdc_id = fdc_id
    /\ NumberRows("1008") = {2, 3}
    /\ food_nutrient[2].amount.val # food_nutrient[3].amount.val
    /\ loaded_amounts["1008"] = food_nutrient[2].amount.val

(***************************************************************************)
(* The vision cache (src/macrocam/cache.py): a directory of files, one per *)
(* image hash.  The content of a file is a JSON document, text that is not *)
(* JSON, or bytes that are not text in UTF-8.  Every call is recorded in   *)
(* log with its arguments and its result.                                  *)
(***************************************************************************)
ImageHashes == {"abc123", "broken"}

Payloads == {"payload1", "payload2"}

\* json.dumps(payload)
Dumps(payload) == [kind |-> "json", doc |-> payload]

NotJson == [kind |-> "text", doc |-> ""]

NotText == [kind |-> "bytes", doc |-> ""]

\* json.loads(text)
Loads(content) ==
    IF content.kind = "json" THEN Returned(<<content.doc>>)
    ELSE Raised("JSONDecodeError", "", <<>>, "", 0)

\* the encodings path.read_text() may use: the locale's
Encodings == {"utf-8", "latin-1"}

\* path.read_text(): the text of the file, read as JSON by the caller
ReadText(content, encoding) ==
    IF content.kind = "bytes" /\ encoding = "utf-8"
    THEN Raised("UnicodeDecodeError", "", <<>>, "", 0)
    ELSE Loads(content)

_cache_path(image_hash) == [hash |-> image_hash, suffix |-> ".json"]

TmpPath(path) == [path EXCEPT !.suffix = ".json.tmp"]

None == Returned(<<>>)

CacheEvent(o, h, p, r) == [op |-> o, hash |-> h, payload |-> p, result |-> r]

CacheDirectories ==
    UNION {[{_cache_path(h) : h \in present} -> {Dumps("payload0"), NotJson, NotText}] :
              present \in SUBSET ImageHashes}

InitCache ==
    /\ files = RequiredFileSet
    /\ food = <<>>
    /\ nutrient = <<>>
    /\ food_nutrient = <<>>
    /\ NoLookup
    /\ nutrient_index = EmptyMap
    /\ loaded_amounts = EmptyMap
    /\ fdc_id = ""
    /\ cache_files \in CacheDirectories
    /\ raw = <<>>
    /\ writers = EmptyMap

\* get_vision_cache: the file after the call (<<>> if removed) and the result
get_vision_cache(dir, image_hash, encoding) ==
    LET path == _cache_path(image_hash)
        loaded == ReadText(dir[path], encoding)
    IN  IF path \notin DOMAIN dir THEN [dir |-> dir, result |-> None]
        ELSE IF loaded.kind = "return" THEN [dir |-> dir, result |-> loaded]
        ELSE IF loaded.kind = "JSONDecodeError"
        THEN [dir |-> [p \in DOMAIN dir \ {path} |-> dir[p]], result |-> None]
        ELSE [dir |-> dir, result |-> loaded]

\* set_vision_cache: the temporary file is written, then renamed over the target
set_vision_cache(dir, image_hash, payload) ==
    LET path == _cache_path(image_hash)
        tmp_path == TmpPath(path)
        written == [p \in DOMAIN dir \cup {tmp_path} |->
                       IF p = tmp_path THEN Dumps(payload) ELSE dir[p]]
    IN  [p \in (DOMAIN written \ {tmp_path}) \cup {path} |->
            IF p = path THEN written[tmp_path] ELSE written[p]]

GetCall(image_hash, encoding) ==
    LET r == get_vision_cache(cache_files, image_hash, encoding)
    IN  /\ pc \in {"idle", "returned"}
        /\ Len(log) < MaxCalls
        /\ cache_files' = r.dir
        /\ outcome' = r.result
        /\ log' = Append(log, CacheEvent("get", image_hash, "", r.result))
        /\ pc' = IF r.result.kind = "return" THEN "returned" ELSE "raised"
        /\ UNCHANGED <<files, food, nutrient, food_nutrient, query, prefer_types, limit,
                       fallback_queries, use_llm_fallback, matches, alt_pos,
                       unique_matches, nutrient_ids, required_ids, cand_pos, last_error,
                       description, data_type, score, nutrient_index, loaded_amounts,
                       fdc_id, raw, writers>>

SetCall(image_hash, payload) ==
    /\ pc \in {"idle", "returned"}
    /\ Len(log) < MaxCalls
    /\ cache_files' = set_vision_cache(cache_files, image_hash, payload)
    /\ outcome' = None
    /\ log' = Append(log, CacheEvent("set", image_hash, payload, None))
    /\ pc' = "returned"
    /\ UNCHANGED <<files, food, nutrient, food_nutrient, query, prefer_types, limit,
                   fallback_queries, use_llm_fallback, matches, alt_pos, unique_matches,
                   nutrient_ids, required_ids, cand_pos, last_error, description,
                   data_type, score, nutrient_index, loaded_amounts, fdc_id, raw, writers>>

NextCache ==
    \/ \E image_hash \in ImageHashes, encoding \in Encodings : GetCall(image_hash, encoding)
    \/ \E image_hash \in ImageHashes, payload \in Payloads : SetCall(image_hash, payload)

SpecCache == InitCache /\ [][NextCache]_vars

(***************************************************************************)
(* Properties of the vision cache, checked under SpecCache.                *)
(***************************************************************************)
\* the calls of set_vision_cache for this hash recorded so far
SetsOf(image_hash) ==
    {i \in 1..Len(log) : log[i].op = "set" /\ log[i].hash = image_hash}

Last(positions) == CHOOSE i \in positions : \A j \in positions : i >= j

\* C17: a call of get_vision_cache returns the payload of the latest
\* set_vision_cache for the hash; with no set and no file it returns None;
\* with no set and a file that is not valid JSON it returns None and the
\* file is gone afterwards.
GetReturnsLastSetStep ==
    (Len(log') > Len(log) /\ log'[Len(log')].op = "get") =>
        LET e == log'[Len(log')]
            path == _cache_path(e.hash)
        IN  IF SetsOf(e.hash) # {}
            THEN e.result = Returned(<<log[Last(SetsOf(e.hash))].payload>>)
            ELSE IF path \notin DOMAIN cache_files THEN e.result = None
            ELSE cache_files[path].kind # "json" =>
                    /\ e.result = None
                    /\ path \notin DOMAIN cache_files'

GetReturnsLastSet == [][GetReturnsLastSetStep]_vars

(***************************************************************************)
(* normalize_candidates (src/macrocam/vision.py).  A confidence c is the   *)
(* integer c * ConfidenceUnit; a raw confidence is a number, the float NaN,*)
(* or a value float() rejects.  Labels are text.                           *)
(***************************************************************************)
ConfidenceUnit == 100

Number(v) == [kind |-> "number", val |-> v]

NaN == [kind |-> "nan", val |-> 0]

NotANumber == [kind |-> "text", val |-> 0]

\* the label "Unknown"
Unknown == <<"Unknown">>

\* Candidate.__post_init__
Candidate(label, confidence, notes) ==
    IF label = <<>> \/ Strip(label) = <<>>
    THEN Raised("ValueError", "must be a non-empty string", <<>>, "label", 0)
    ELSE IF ~(confidence.kind = "number" /\ 0 <= confidence.val
                                         /\ confidence.val <= ConfidenceUnit)
    THEN Raised("ValueError", "confidence must be between 0.0 and 1.0", <<>>, "", 0)
    ELSE Returned(<<[label |-> label, confidence |-> confidence.val, notes |-> notes]>>)

\* float(confidence_raw), 0.0 when it raises TypeError or ValueError
ToFloat(confidence_raw) ==
    IF confidence_raw.kind = "text" THEN Number(0) ELSE confidence_raw

\* line 100, min(max(confidence, 0.0), 1.0): both keep a NaN first argument
Clamp(confidence) ==
    IF confidence.kind = "nan" THEN confidence
    ELSE Number(IF confidence.val < 0 THEN 0
                ELSE IF confidence.val > ConfidenceUnit THEN ConfidenceUnit
                ELSE confidence.val)

\* lines 92-102: the candidate made of one item of the list
CandidateOfItem(item) ==
    Candidate(IF Strip(item.label) = <<>> THEN Unknown ELSE Strip(item.label),
              Clamp(ToFloat(item.confidence)), item.notes)

Placeholder == [label |-> Unknown, confidence |-> 1, notes |-> ""]

\* list.sort(key=confidence, reverse=True): stable
RECURSIVE SortByConfidenceDesc(_)
SortByConfidenceDesc(candidates) ==
    IF candidates = <<>> THEN <<>>
    ELSE LET sorted == SortByConfidenceDesc(SubSeq(candidates, 1, Len(candidates) - 1))
             c == candidates[Len(candidates)]
             before == Cardinality({i \in 1..Len(sorted) :
                                       sorted[i].confidence >= c.confidence})
         IN  SubSeq(sorted, 1, before) \o <<c>> \o SubSeq(sorted, before + 1, Len(sorted))

\* lines 110-112: the placeholders appended to reach 3 candidates
Padded(candidates) ==
    candidates \o [k \in 1..(IF Len(candidates) < 3 THEN 3 - Len(candidates) ELSE 0) |->
                      Placeholder]

normalize_candidates(document) ==
    LET dicts == SelectSeq(document.items, LAMBDA item : item.is_dict)
        made == [k \in 1..Len(dicts) |-> CandidateOfItem(dicts[k])]
        failed == {k \in 1..Len(made) : made[k].kind # "return"}
        candidates == [k \in 1..Len(made) |-> made[k].value[1]]
        sorted == SortByConfidenceDesc(IF candidates = <<>> THEN <<Placeholder>>
                                       ELSE candidates)
        cut == IF Len(sorted) > 5 THEN SubSeq(sorted, 1, 5) ELSE sorted
    IN  IF ~document.items_is_list
        THEN Raised("ValueError", "vision JSON must include items list", <<>>, "", 0)
        ELSE IF failed # {} THEN made[CHOOSE k \in failed : \A j \in failed : k <= j]
        ELSE Returned(Padded(cut))

VisionItem(d, l, c, n) == [is_dict |-> d, label |-> l, confidence |-> c, notes |-> n]

VisionItems ==
    { VisionItem(FALSE, <<>>, NotANumber, ""),
      VisionItem(TRUE, <<" ", " ">>, Number(150), "test"),
      VisionItem(TRUE, <<"a">>, NaN, ""),
      VisionItem(TRUE, <<"a", " ">>, Number(-50), ""),
      VisionItem(TRUE, <<"b">>, Number(50), "") }

Document(l, i) == [items_is_list |-> l, items |-> i]

InitVision ==
    /\ files = RequiredFileSet
    /\ food = <<>>
    /\ nutrient = <<>>
    /\ food_nutrient = <<>>
    /\ NoLookup
    /\ nutrient_index = EmptyMap
    /\ loaded_amounts = EmptyMap
    /\ fdc_id = ""
    /\ cache_files = EmptyMap
    /\ raw \in {Document(TRUE, items) : items \in SeqsUpTo(VisionItems, MaxItems)}
               \cup {Document(FALSE, <<>>)}
    /\ writers = EmptyMap

NormalizeCall ==
    LET r == normalize_candidates(raw)
    IN  /\ pc = "idle"
        /\ outcome' = r
        /\ pc' = IF r.kind = "return" THEN "returned" ELSE "raised"
        /\ UNCHANGED <<files, food, nutrient, food_nutrient, query, prefer_types, limit,
                       fallback_queries, use_llm_fallback, matches, alt_pos,
                       unique_matches, nutrient_ids, required_ids, cand_pos, last_error,
                       log, description, data_type, score, standalone>>

NextVision == NormalizeCall

SpecVision == InitVision /\ [][NextVision]_vars

(***************************************************************************)
(* Properties of normalize_candidates, checked under SpecVision.           *)
(***************************************************************************)
\* C18: for every document whose items value is a list, the call returns
\* between 3 and 5 candidates, each with a non-empty label and a confidence
\* within [0, 1].
ReturnsThreeToFiveValid ==
    (pc # "idle" /\ raw.items_is_list) =>
        /\ outcome.kind = "return"
        /\ Len(outcome.value) \in 3..5
        /\ \A k \in 1..Len(outcome.value) :
              /\ Strip(outcome.value[k].label) # <<>>
              /\ outcome.value[k].confidence \in 0..ConfidenceUnit

\* C21: the candidates returned are in order of confidence, never
\* increasing, the placeholders appended to reach 3 candidates included.
OrderedByConfidence ==
    pc = "returned" =>
        \A i \in 1..Len(outcome.value), j \in 1..Len(outcome.value) :
            i < j => outcome.value[i].confidence >= outcome.value[j].confidence

(***************************************************************************)
(* _score_description called on the rows of one table for one query:       *)
(* descriptions that match the query exactly, as a substring, by tokens,   *)
(* and not at all.                                                         *)
(***************************************************************************)
RankQueries == { <<"a", " ", "b">>, <<"A", "-", "b">>, <<"b">>, <<"a", "b">> }

RankDescriptions ==
    { <<"a", " ", "b">>, <<"A", "-", "b">>, <<"a", "a", " ", "b">>, <<"a", " ", "b", " ", "a">>,
      <<"b", " ", "a">>, <<"b">>, <<"a">>, <<"a", "b">>, <<"b", " ", "b">>, <<"-">> }

RankTags == {"", "foundation_food", "branded_food", "custom_food"}

NextRank ==
    /\ pc = "idle"
    /\ \E q \in RankQueries, desc \in RankDescriptions, tag \in RankTags :
            ScoreCall(q, desc, tag)

SpecRank == InitScore /\ [][NextRank]_vars

(***************************************************************************)
(* Properties of the ranking of match kinds, checked under SpecRank.       *)
(***************************************************************************)
\* how a description matches a query
MatchKind(q, desc) ==
    LET query_norm == _normalize_text(q)
        desc_norm == _normalize_text(desc)
    IN  IF query_norm = <<>> \/ desc_norm = <<>> THEN "none"
        ELSE IF query_norm = desc_norm THEN "exact"
        ELSE IF IsSubstring(query_norm, desc_norm) THEN "substring"
        ELSE IF SplitSet(query_norm) \cap SplitSet(desc_norm) # {} THEN "overlap"
        ELSE "none"

\* the score of another row of the table for the query of this call
ScoreOf(desc, tag) ==
    _score_description(_normalize_text(query), SplitSet(_normalize_text(query)), desc, tag)

\* C20 as stated: a row matching exactly scores strictly higher than every
\* row matching only as a substring, and a row matching only as a substring
\* strictly higher than every row matching only by token overlap, whatever
\* the source-type tags.
KindsStrictlyRanked ==
    pc = "returned" =>
        \A desc \in RankDescriptions, tag \in RankTags :
            /\ (MatchKind(query, description) = "exact"
                   /\ MatchKind(query, desc) = "substring") => score > ScoreOf(desc, tag)
            /\ (MatchKind(query, description) = "substring"
                   /\ MatchKind(query, desc) = "overlap") => score > ScoreOf(desc, tag)

\* C20 amended: a row matching exactly scores strictly higher than every row
\* matching as a substring or by token overlap; a row matching as a
\* substring never scores lower than a row matching by token overlap, and
\* scores the same only when it has no recognised source-type tag and the
\* other row holds every token of the query and is tagged foundation_food.
KindsRankedUpToTie ==
    pc = "returned" =>
        \A desc \in RankDescriptions, tag \in RankTags :
            /\ (MatchKind(query, description) = "exact"
                   /\ MatchKind(query, desc) \in {"substring", "overlap"})
                  => score > ScoreOf(desc, tag)
            /\ (MatchKind(query, description) = "substring"
                   /\ MatchKind(query, desc) = "overlap")
                  => /\ score >= ScoreOf(desc, tag)
                     /\ score = ScoreOf(desc, tag) =>
                           /\ data_type \notin PreferredTypeSet
                           /\ tag = "foundation_food"
                           /\ SplitSet(_normalize_text(query))
                                  \subseteq SplitSet(_normalize_text(desc))

KindsRankedUpToTie_Witness ==
    /\ pc = "returned"
    /\ MatchKind(query, description) = "substring"
    /\ data_type = "custom_food"
    /\ \E desc \in RankDescriptions :
          /\ MatchKind(query, desc) = "overlap"
          /\ ScoreOf(desc, "foundation_food") = score
          /\ ScoreOf(desc, "branded_food") < score

(***************************************************************************)
(* Two calls of set_vision_cache for one image hash running at the same    *)
(* time, each a step at a time: the temporary file is written, then it is  *)
(* renamed over the target.  When both calls have ended, get_vision_cache  *)
(* is called for the hash.                                                 *)
(***************************************************************************)
Writers == {1, 2}

FileNotFoundError == Raised("FileNotFoundError", "", <<>>, "", 0)

Writer(image_hash, payload) ==
    [hash |-> image_hash, payload |-> payload, at |-> "start", result |-> Pending]

\* tmp_path.write_text(json.dumps(payload)): the file is created or overwritten
write_text(dir, path, content) ==
    [p \in DOMAIN dir \cup {path} |-> IF p = path THEN content ELSE dir[p]]

\* tmp_path.replace(path): the directory after the renaming, or the error
replace(dir, tmp_path, path) ==
    IF tmp_path \notin DOMAIN dir THEN [dir |-> dir, result |-> FileNotFoundError]
    ELSE [dir |-> [p \in (DOMAIN dir \ {tmp_path}) \cup {path} |->
                      IF p = path THEN dir[tmp_path] ELSE dir[p]],
          result |-> None]

Ended(w) == writers[w].at \in {"done", "raised"}

InitRace ==
    /\ files = RequiredFileSet
    /\ food = <<>>
    /\ nutrient = <<>>
    /\ food_nutrient = <<>>
    /\ NoLookup
    /\ nutrient_index = EmptyMap
    /\ loaded_amounts = EmptyMap
    /\ fdc_id = ""
    /\ cache_files \in CacheDirectories
    /\ raw = <<>>
    /\ \E image_hash \in ImageHashes :
           writers \in [Writers -> {Writer(image_hash, payload) : payload \in Payloads}]

RaceUnchanged ==
    UNCHANGED <<files, food, nutrient, food_nutrient, query, prefer_types, limit,
                fallback_queries, use_llm_fallback, matches, alt_pos, unique_matches,
                nutrient_ids, required_ids, cand_pos, last_error, log, description,
                data_type, score, nutrient_index, loaded_amounts, fdc_id, raw>>

WriteTmp(w) ==
    LET tmp_path == TmpPath(_cache_path(writers[w].hash))
    IN  /\ writers[w].at = "start"
        /\ cache_files' = write_text(cache_files, tmp_path, Dumps(writers[w].payload))
        /\ writers' = [writers EXCEPT ![w].at = "written"]
        /\ UNCHANGED <<pc, outcome>>
        /\ RaceUnchanged

Rename(w) ==
    LET path == _cache_path(writers[w].hash)
        r == replace(cache_files, TmpPath(path), path)
    IN  /\ writers[w].at = "written"
        /\ cache_files' = r.dir
        /\ writers' = [writers EXCEPT ![w].at = IF r.result = None THEN "done" ELSE "raised",
                                      ![w].result = r.result]
        /\ UNCHANGED <<pc, outcome>>
        /\ RaceUnchanged

GetAfterwards(encoding) ==
    LET r == get_vision_cache(cache_files, writers[1].hash, encoding)
    IN  /\ pc = "idle"
        /\ \A w \in Writers : Ended(w)
        /\ cache_files' = r.dir
        /\ outcome' = r.result
        /\ pc' = IF r.result.kind = "return" THEN "returned" ELSE "raised"
        /\ UNCHANGED writers
        /\ RaceUnchanged

NextRace ==
    \/ \E w \in Writers : WriteTmp(w)
    \/ \E w \in Writers : Rename(w)
    \/ \E encoding \in Encodings : GetAfterwards(encoding)

SpecRace == InitRace /\ [][NextRace]_vars

(***************************************************************************)
(* Properties of concurrent set_vision_cache calls, checked under SpecRace.*)
(***************************************************************************)
\* both calls have ended and neither raised
BothSetsCompleted ==
    (\A w \in Writers : Ended(w)) => \A w \in Writers : writers[w].at = "done"

\* the get after both calls returns the payload of one of them, whole
GetReturnsOnePayload ==
    pc # "idle" => \E w \in Writers : outcome = Returned(<<writers[w].payload>>)

\* C22: two calls of set_vision_cache for the same hash, interleaved at the
\* level of their file operations, both end without error, and the
\* get_vision_cache that follows returns exactly one of the two payloads.
ConcurrentSetsBothSucceed ==
    BothSetsCompleted /\ GetReturnsOnePayload

====
